---- MODULE Spec2Model ----
(***************************************************************************)
(* Delivery route optimizer of BekoSIRS (products/route_optimizer.py):     *)
(* Haversine distance, greedy nearest-neighbour ordering, time and cost    *)
(* aggregates, zone grouping, the distance matrix and the delivery         *)
(* windows, with the POST handler of RouteOptimizationView                 *)
(* (products/views/analytics_views.py) that chains them.                   *)
(*                                                                         *)
(* Spec: callers invoke the optimizer's operations with any stop list.     *)
(* PostSpec: the POST handler.  HeldSpec: one caller keeps one list and    *)
(* calls the operations on it again and again.                             *)
(*                                                                         *)
(* The views on the database (products/views/delivery_views.py,            *)
(* products/models.py): DeliveryRouteViewSet.optimize and the GET handler  *)
(* of RouteOptimizationView with optimize_deliveries_for_date.             *)
(* ViewSpec: one request at a time.  InterleavedSpec: two optimize         *)
(* requests whose database statements interleave.                          *)
(*                                                                         *)
(* Units.  Distances are integers in centimetres (1e-5 km), so a value    *)
(* the code rounds to two decimals of a kilometre is a multiple of 1000.   *)
(* Times before rounding are in thousandths of a minute.  Coordinates are  *)
(* in 1e-4 degree.                                                         *)
(***************************************************************************)
EXTENDS Integers, Sequences, FiniteSets, TLC

\* ---------------------------------------------------------------- bounds
\* longest list handed to the optimizer directly
MaxStops == 3
\* longest stops list of a POST request
MaxRequestStops == 2
\* longest list a caller holds across repeated calls
MaxHeldStops == 2
\* number of rows of the Delivery table
MaxDeliveries == 3

\* ------------------------------------------------------ program constants
AVG_SPEED_KMH == 30
STOP_DURATION_MIN == 15
FUEL_COST_PER_KM_X10 == 25
Infinity == 2147483647
None == 0

\* The coordinates the model draws from, <<latitude, longitude>>:
\*   1  (40.8219, 29.3094)  DEFAULT_DEPOT
\*   2  (41.0,    29.0)     custom depot of the spec's scenario
\*   3  (41.01,   29.0)     A
\*   4  (41.1,    29.0)     B
\*   5  (41.005,  29.0)     C
\*   6  (40.995,  29.0)     I, as far from the custom depot as C
\*   7  (-12.0,  -54.75)    P
\*   8  (12.0,   125.25)    Q, the antipode of P
\*   9  (0,       29.0)     Z, where a dict without 'latitude' is placed
\*  10  (41.0003, 29.0)     X, 33.36 m from the custom depot
\*  11  (41.0,    29.0004)  Y, 33.57 m from the custom depot
\*  12  (35.1856, 33.3823)  the default store of a DeliveryRoute
Coordinates ==
  << <<408219, 293094>>, <<410000, 290000>>, <<410100, 290000>>,
     <<411000, 290000>>, <<410050, 290000>>, <<409950, 290000>>,
     <<-120000, -547500>>, <<120000, 1252500>>, <<0, 290000>>,
     <<410003, 290000>>, <<410000, 290004>>, <<351856, 333823>> >>

DEFAULT_DEPOT == [id |-> 0, latitude |-> 408219, longitude |-> 293094]

CustomDepot == [id |-> 0, latitude |-> 410000, longitude |-> 290000]

\* Coordinates a stop may carry: A, B, C, I.
StopCoordinates == { Coordinates[i] : i \in 3..6 }

\* The antipodal pair P, Q.
FarCoordinates == { Coordinates[7], Coordinates[8] }

\* math.sqrt(1 - a) raises ValueError("math domain error") when a > 1; for
\* P and Q the source's formula gives a = 1.0000000000000002.
MathDomainError == -1

\* EARTH_RADIUS_KM * c of haversine_distance before its rounding, in cm,
\* evaluated with the source's formula for every ordered pair of Coordinates
\* (MathDomainError where the evaluation raises).
GreatCircleCm ==
  << <<         0,    3268304,    3336700,    4038832,    3302211,    3234997, 1038559291,  962949388,  453929571,    3270322,    3265631,   72098970>>,
     <<   3268304,          0,     111195,    1111949,      55597,      55597, 1036472899,  965035781,  455899199,       3336,       3357,   75145955>>,
     <<   3336700,     111195,          0,    1000754,      55597,     166792, 1036498154,  965010525,  456010394,     107859,     111246,   75240223>>,
     <<   4038832,    1111949,    1000754,          0,    1056352,    1167547, 1036725407,  964783273,  457011149,    1108613,    1111954,   76090682>>,
     <<   3302211,      55597,      55597,    1056352,          0,     111195, 1036485527,  965023153,  455954797,      52262,      55699,   75193083>>,
     <<   3234997,      55597,     166792,    1167547,     111195,          0, 1036460271,  965048409,  455843602,      58933,      55699,   75098838>>,
     <<1038559291, 1036472899, 1036498154, 1036725407, 1036485527, 1036460271,          0,         -1,  932782037, 1036473657, 1036476168, 1060569984>>,
     << 962949388,  965035781,  965010525,  964783273,  965023153,  965048409,         -1,          0, 1068726642,  965035023,  965032511,  940938696>>,
     << 453929571,  455899199,  456010394,  457011149,  455954797,  455843602,  932782037, 1068726642,          0,  455902535,  455899199,  393880150>>,
     <<   3270322,       3336,     107859,    1108613,      52262,      58933, 1036473657,  965035023,  455902535,          0,       4732,   75148782>>,
     <<   3265631,       3357,     111246,    1111954,      55699,      55699, 1036476168,  965032511,  455899199,       4732,          0,   75144173>>,
     <<  72098970,   75145955,   75240223,   76090682,   75193083,   75098838, 1060569984,  940938696,  393880150,   75148782,   75144173,          0>> >>

CoordIndex(lat, lon) ==
  CHOOSE i \in 1..Len(Coordinates) : Coordinates[i] = <<lat, lon>>

\* Python's round(): nearest multiple of unit, a tie goes to the even one.
RoundHalfEven(x, unit) ==
  LET q == x \div unit
      r == x % unit
  IN  IF 2 * r < unit THEN q
      ELSE IF 2 * r > unit THEN q + 1
      ELSE IF q % 2 = 0 THEN q ELSE q + 1

\* round(x, 2) of a distance in km: the nearest 0.01 km = 1000 cm.
Round2(x) == 1000 * RoundHalfEven(x, 1000)

\* the call raises instead of returning
haversine_raises(lat1, lon1, lat2, lon2) ==
  GreatCircleCm[CoordIndex(lat1, lon1)][CoordIndex(lat2, lon2)]
    = MathDomainError

\* (variant: a distance below 0.01 km is reported as 0.01 km)
haversine_at_least_a_unit(lat1, lon1, lat2, lon2) ==
  LET d == Round2(GreatCircleCm[CoordIndex(lat1, lon1)][CoordIndex(lat2, lon2)])
  IN  IF d < 1000 THEN 1000 ELSE d

\* (variant: the first point is not read, the default depot stands in)
haversine_from_depot(lat1, lon1, lat2, lon2) ==
  Round2(GreatCircleCm[1][CoordIndex(lat2, lon2)])

\* the value returned when the call does not raise
haversine_distance(lat1, lon1, lat2, lon2) ==
  Round2(GreatCircleCm[CoordIndex(lat1, lon1)][CoordIndex(lat2, lon2)])

\* ------------------------------------------------------------------ inputs
\* Stop dicts {id, latitude, longitude, priority}; name and address are
\* display strings that no operation reads and are left out.
StopDicts(ids, priorities) ==
  { [id |-> i, latitude |-> c[1], longitude |-> c[2], priority |-> p] :
      i \in ids, c \in StopCoordinates, p \in priorities }

\* stop lists handed to optimize_route: two ids at the first priority level,
\* one id at the second
StopLists ==
  UNION { [1..n -> StopDicts({1, 2}, {1}) \cup StopDicts({1}, {2})] :
            n \in 0..MaxStops }

\* stop lists handed to group_by_zone, which never reads the priority:
\* three ids, the default priority
ZoneStopLists ==
  UNION { [1..n -> StopDicts({1, 2, 3}, {1})] : n \in 0..MaxStops }

\* stops at the antipodal points P and Q
FarStopDicts ==
  { [id |-> 1, latitude |-> c[1], longitude |-> c[2], priority |-> 1] :
      c \in FarCoordinates }

FarStopLists == UNION { [1..n -> FarStopDicts] : n \in 1..MaxStops }

\* a stop dict without the 'latitude' key
PartialStopDict == [id |-> 1, longitude |-> 290000, priority |-> 1]

\* lists holding the dict without latitude, alone or with a stop at A
PartialStopLists ==
  { s \in UNION { [1..n -> { PartialStopDict,
                             [id |-> 2, latitude |-> 410100,
                              longitude |-> 290000, priority |-> 1] }] :
                    n \in 1..MaxStops } :
      \E i \in DOMAIN s : s[i] = PartialStopDict }

\* two stops of one priority at X and Y, whose distances from the custom
\* depot differ by 0.21 m and round to the same 0.03 km, in both orders
TieStopLists ==
  { << [id |-> 1, latitude |-> c[1], longitude |-> c[2], priority |-> 1],
       [id |-> 2, latitude |-> d[1], longitude |-> d[2], priority |-> 1] >> :
      c, d \in { Coordinates[10], Coordinates[11] } }

\* stop lists handed to calculate_distance_matrix, which reads only the
\* coordinates: A, B, C, I, P, Q
MatrixStopLists ==
  UNION { [1..n -> StopDicts({1}, {1}) \cup FarStopDicts] :
            n \in 0..MaxStops }

\* the stops list of a POST request: complete dicts and the dict without
\* latitude
RequestStopLists ==
  UNION { [1..n -> StopDicts({1}, {1, 2}) \cup {PartialStopDict}] :
            n \in 0..MaxRequestStops }

\* the list a caller holds across repeated calls
HeldStopLists ==
  UNION { [1..n -> StopDicts({1, 2}, {1, 2})] : n \in 0..MaxHeldStops }

\* zone_radius_km values, in cm: 0, 0.56, 1.11 and the default 5.0 km
ZoneRadii == {0, 56000, 111000, 500000}

Range(f) == { f[i] : i \in DOMAIN f }

\* ------------------------------------------------------------------- state
VARIABLES
  depot,            \* self.depot
  pc,               \* "idle", "loop" (inside optimize_route's while),
                    \* "returned" (optimize_route returned), "grouped",
                    \* "matrix" (calculate_distance_matrix returned),
                    \* "raised" (an exception left the call), "rejected"
                    \* (the view answered 400), "estimated"
                    \* (estimate_delivery_windows returned)
  caller_stops,     \* the list object the caller handed to the call
  stops,            \* what the call reads: the Stop objects in the caller's
                    \* order (optimize_route) or the caller's dicts
  return_to_depot,  \* the flag of the running/last optimize_route call
  stop_objects,     \* priority-sorted list of references into stops
  unvisited,        \* references into stops not yet routed
  current_lat, current_lon,
  total_distance,
  route,
  result,           \* the dict optimize_route returned
  zone_radius_km,
  zones,            \* the dict group_by_zone returned: zone number -> members
  matrix,           \* the list of rows calculate_distance_matrix returned
  start_time,       \* the start_time estimate_delivery_windows was given
  first_result      \* history: per return_to_depot flag, the plan the first
                    \* optimize_route call on the caller's list returned

\* the database behind the views and the requests in progress
VARIABLES
  Delivery_objects,           \* the Delivery table: id -> row
  DeliveryRoute_objects,      \* the DeliveryRoute table, keyed by its unique
                              \* date: date -> row
  DeliveryRouteStop_objects,  \* the DeliveryRouteStop table: a set of rows
  request,                    \* per worker, the locals of the view it runs
  last_selected,              \* history: per date, the ids of the deliveries
                              \* the last optimize call that answered 200
                              \* had selected
  assigned_by_optimize        \* history: the ids of the deliveries whose
                              \* status optimize has saved as 'assigned'

optimizer_vars ==
  <<depot, pc, caller_stops, stops, return_to_depot, stop_objects,
    unvisited, current_lat, current_lon, total_distance, route, result,
    zone_radius_km, zones, matrix, start_time, first_result>>

db_vars ==
  <<Delivery_objects, DeliveryRoute_objects, DeliveryRouteStop_objects,
    request, last_selected, assigned_by_optimize>>

vars == <<optimizer_vars, db_vars>>

\* no table holds a row and no view is running
NoDatabase ==
  /\ Delivery_objects = <<>>
  /\ DeliveryRoute_objects = <<>>
  /\ DeliveryRouteStop_objects = {}
  /\ request = <<>>
  /\ last_selected = <<>>
  /\ assigned_by_optimize = {}

NoResult == [message |-> "none"]

NoFirstResult == [rtd \in BOOLEAN |-> NoResult]

\* no start_time: estimate_delivery_windows has not been called
NoStartTime == <<>>

\* RouteOptimizer.__init__: self.depot = depot or self.DEFAULT_DEPOT
\* (NoDepot stands for the falsy argument: None or an empty dict)
NoDepot == [none |-> TRUE]

RouteOptimizer_init(d) == IF d = NoDepot THEN DEFAULT_DEPOT ELSE d

Init ==
  /\ depot \in { RouteOptimizer_init(d) : d \in {NoDepot, CustomDepot} }
  /\ pc = "idle"
  /\ caller_stops = <<>>
  /\ stops = <<>>
  /\ return_to_depot = TRUE
  /\ stop_objects = <<>>
  /\ unvisited = <<>>
  /\ current_lat = depot.latitude
  /\ current_lon = depot.longitude
  /\ total_distance = 0
  /\ route = <<>>
  /\ result = NoResult
  /\ zone_radius_km = 0
  /\ zones = <<>>
  /\ matrix = <<>>
  /\ start_time = NoStartTime
  /\ first_result = NoFirstResult
  /\ NoDatabase

\* -------------------------------------------------------- optimize_route
\* dict.get(key, default)
Get(d, key, default) == IF key \in DOMAIN d THEN d[key] ELSE default

\* Stop(id=s.get('id', 0), latitude=s.get('latitude', 0),
\*      longitude=s.get('longitude', 0), priority=s.get('priority', 1))
ToStop(s) ==
  [id |-> Get(s, "id", 0), latitude |-> Get(s, "latitude", 0),
   longitude |-> Get(s, "longitude", 0), priority |-> Get(s, "priority", 1)]

\* list.sort(key=priority) on a list of references: stable insertion of the
\* last reference into the sorted front.
RECURSIVE InsertByPriority(_, _, _)
InsertByPriority(s, sorted, x) ==
  IF sorted = <<>> THEN <<x>>
  ELSE IF s[sorted[Len(sorted)]].priority <= s[x].priority
       THEN Append(sorted, x)
       ELSE Append(InsertByPriority(s, SubSeq(sorted, 1, Len(sorted) - 1), x),
                   sorted[Len(sorted)])

RECURSIVE SortByPriority(_, _)
SortByPriority(s, n) ==
  IF n = 0 THEN <<>>
  ELSE InsertByPriority(s, SortByPriority(s, n - 1), n)

StartEntry(d) ==
  [order |-> 0, type |-> "start", id |-> d.id,
   latitude |-> d.latitude, longitude |-> d.longitude,
   distance_from_prev |-> 0, cumulative_distance |-> 0]

\* the empty-list return of optimize_route
EmptyResult ==
  [route |-> <<>>, total_distance_km |-> 0, estimated_time_min |-> 0,
   estimated_fuel_cost |-> 0, message |-> "No stops provided"]

\* a call starts when no call is running
Callable == pc = "idle"

\* (variant: the caller's list itself is sorted)
PrepareInPlace(s) ==
  LET objects == [i \in 1..Len(s) |-> ToStop(s[i])]
      order == SortByPriority(objects, Len(s))
  IN  [caller_list |-> [i \in 1..Len(s) |-> s[order[i]]],
       stops |-> objects,
       stop_objects |-> order]

\* the Stop objects are collected in a new list and that list is sorted;
\* the caller's list keeps its elements and its order
Prepare(s) ==
  LET objects == [i \in 1..Len(s) |-> ToStop(s[i])]
  IN  [caller_list |-> s,
       stops |-> objects,
       stop_objects |-> SortByPriority(objects, Len(s))]

optimize_route(s, rtd) ==
  /\ Callable
  /\ caller_stops' = IF s = <<>> THEN s ELSE Prepare(s).caller_list
  /\ stops' = IF s = <<>> THEN s ELSE Prepare(s).stops
  /\ return_to_depot' = rtd
  /\ zone_radius_km' = 0
  /\ zones' = <<>>
  /\ current_lat' = depot.latitude
  /\ current_lon' = depot.longitude
  /\ total_distance' = 0
  /\ IF s = <<>>
       THEN /\ result' = EmptyResult
            /\ pc' = "returned"
            /\ stop_objects' = <<>>
            /\ unvisited' = <<>>
            /\ route' = <<>>
       ELSE /\ stop_objects' = Prepare(s).stop_objects
            /\ unvisited' = stop_objects'
            /\ route' = <<StartEntry(depot)>>
            /\ result' = NoResult
            /\ pc' = "loop"
  /\ first_result' =
       IF s = <<>> /\ first_result[rtd] = NoResult
         THEN [first_result EXCEPT ![rtd] = EmptyResult]
         ELSE first_result
  /\ UNCHANGED <<depot, matrix, start_time>>

\* (variant: a tie replaces the candidate, the last scanned wins)
CloserOrEqual(dist, nearest_dist) == dist <= nearest_dist

\* the comparison of the scan
Closer(dist, nearest_dist) == dist < nearest_dist

RECURSIVE Scan(_, _, _, _, _, _)
Scan(s, unv, lat, lon, k, acc) ==
  IF k > Len(unv) THEN acc
  ELSE LET stop == s[unv[k]]
           dist == haversine_distance(lat, lon, stop.latitude, stop.longitude)
       IN  Scan(s, unv, lat, lon, k + 1,
                IF Closer(dist, acc.nearest_dist)
                  THEN [nearest |-> unv[k], nearest_dist |-> dist]
                  ELSE acc)

\* (variant: no comparison, the head of unvisited is taken)
FirstUnvisited(s, unv, lat, lon) ==
  [nearest |-> unv[1],
   nearest_dist |-> haversine_distance(lat, lon, s[unv[1]].latitude,
                                       s[unv[1]].longitude)]

\* some haversine_distance call of the for loop raises
ScanRaises(s, unv, lat, lon) ==
  \E k \in 1..Len(unv) :
    haversine_raises(lat, lon, s[unv[k]].latitude, s[unv[k]].longitude)

\* the for loop over unvisited
NearestScan(s, unv, lat, lon) ==
  Scan(s, unv, lat, lon, 1, [nearest |-> None, nearest_dist |-> Infinity])

\* (variant: filters out every element equal to nearest)
RemoveAllEqual(s, unv, nearest) ==
  SelectSeq(unv, LAMBDA i : s[i] # s[nearest])

\* unvisited.remove(nearest): drops the first element that compares equal
\* (dataclass equality: all fields) to nearest.
Remove(s, unv, nearest) ==
  LET k == CHOOSE i \in 1..Len(unv) :
             /\ s[unv[i]] = s[nearest]
             /\ \A j \in 1..(i - 1) : s[unv[j]] # s[nearest]
  IN  SubSeq(unv, 1, k - 1) \o SubSeq(unv, k + 1, Len(unv))

\* (variant: the running total is not used for cumulative_distance)
DeliveryEntryLegOnly(rt, stop, nearest_dist, total) ==
  [order |-> Len(rt), type |-> "delivery", id |-> stop.id,
   latitude |-> stop.latitude, longitude |-> stop.longitude,
   priority |-> stop.priority,
   distance_from_prev |-> nearest_dist,
   cumulative_distance |-> Round2(nearest_dist)]

DeliveryEntry(rt, stop, nearest_dist, total) ==
  [order |-> Len(rt), type |-> "delivery", id |-> stop.id,
   latitude |-> stop.latitude, longitude |-> stop.longitude,
   priority |-> stop.priority,
   distance_from_prev |-> nearest_dist,
   cumulative_distance |-> Round2(total)]

\* one iteration of `while unvisited`
LoopIteration ==
  /\ UNCHANGED db_vars
  /\ pc = "loop"
  /\ unvisited # <<>>
  /\ IF ScanRaises(stops, unvisited, current_lat, current_lon)
       THEN /\ pc' = "raised"
            /\ UNCHANGED <<total_distance, route, current_lat, current_lon,
                           unvisited>>
       ELSE LET found == NearestScan(stops, unvisited, current_lat,
                                     current_lon)
                nearest == stops[found.nearest]
            IN  /\ total_distance' = total_distance + found.nearest_dist
                /\ route' = Append(route, DeliveryEntry(route, nearest,
                                                        found.nearest_dist,
                                                        total_distance'))
                /\ current_lat' = nearest.latitude
                /\ current_lon' = nearest.longitude
                /\ unvisited' = Remove(stops, unvisited, found.nearest)
                /\ pc' = pc
  /\ UNCHANGED <<depot, caller_stops, stops, return_to_depot, stop_objects,
                 result, zone_radius_km, zones, matrix, start_time,
                 first_result>>

\* (variant: the flag is ignored, the leg back is always appended)
ReturnLegAlways(rt, d, lat, lon, total, rtd) ==
  LET return_dist == haversine_distance(lat, lon, d.latitude, d.longitude)
  IN  [route |-> Append(rt,
         [order |-> Len(rt), type |-> "return", id |-> d.id,
          latitude |-> d.latitude, longitude |-> d.longitude,
          distance_from_prev |-> return_dist,
          cumulative_distance |-> Round2(total + return_dist)]),
       total_distance |-> total + return_dist]

\* (variant: the leg back is appended but not added to the total)
ReturnLegNotAdded(rt, d, lat, lon, total, rtd) ==
  IF rtd
    THEN LET return_dist ==
               haversine_distance(lat, lon, d.latitude, d.longitude)
         IN  [route |-> Append(rt,
                [order |-> Len(rt), type |-> "return", id |-> d.id,
                 latitude |-> d.latitude, longitude |-> d.longitude,
                 distance_from_prev |-> return_dist,
                 cumulative_distance |-> Round2(total)]),
              total_distance |-> total]
    ELSE [route |-> rt, total_distance |-> total]

\* `if return_to_depot:` the leg back; yields the final route and total
ReturnLeg(rt, d, lat, lon, total, rtd) ==
  IF rtd
    THEN LET return_dist ==
               haversine_distance(lat, lon, d.latitude, d.longitude)
         IN  [route |-> Append(rt,
                [order |-> Len(rt), type |-> "return", id |-> d.id,
                 latitude |-> d.latitude, longitude |-> d.longitude,
                 distance_from_prev |-> return_dist,
                 cumulative_distance |-> Round2(total + return_dist)]),
              total_distance |-> total + return_dist]
    ELSE [route |-> rt, total_distance |-> total]

\* driving_time_min = (total_distance / AVG_SPEED_KMH) * 60 before rounding,
\* in thousandths of a minute (total is in 1e-5 km and a multiple of 1000,
\* being a sum of rounded legs)
DrivingTime(total) == ((total \div 100) * 60) \div AVG_SPEED_KMH

\* the returned dict; fuel is the reported estimated_fuel_cost in 0.01 TL
Plan(rt, total, n, d, fuel) ==
  LET driving_time_min == DrivingTime(total)
      stop_time_min == n * STOP_DURATION_MIN
      total_time_min == driving_time_min + 1000 * stop_time_min
  IN  [route |-> rt,
       stops_count |-> n,
       total_distance_km |-> Round2(total),
       driving_time_min |-> RoundHalfEven(driving_time_min, 1000),
       stop_time_min |-> stop_time_min,
       total_time_min |-> RoundHalfEven(total_time_min, 1000),
       total_time_hours |-> RoundHalfEven(total_time_min, 6000),
       estimated_fuel_cost |-> fuel,
       optimization_method |-> "Nearest Neighbor (Greedy TSP)",
       depot |-> d]

\* round(total_distance * FUEL_COST_PER_KM, 2) in 0.01 TL.  The product is
\* (total / 1000) * 25 in 0.001 TL; when it lies exactly between two cents
\* the binary value of the product decides the direction, so both are
\* outcomes.
FuelCost(total) ==
  LET x == (total \div 1000) * FUEL_COST_PER_KM_X10
  IN  IF 2 * (x % 10) = 10
        THEN {x \div 10, x \div 10 + 1}
        ELSE {RoundHalfEven(x, 10)}

\* loop exit: return leg, aggregates, return
Finish ==
  /\ UNCHANGED db_vars
  /\ pc = "loop"
  /\ unvisited = <<>>
  /\ IF /\ return_to_depot
        /\ haversine_raises(current_lat, current_lon,
                            depot.latitude, depot.longitude)
       THEN /\ pc' = "raised"
            /\ UNCHANGED <<route, total_distance, result, first_result>>
       ELSE LET leg == ReturnLeg(route, depot, current_lat, current_lon,
                                 total_distance, return_to_depot)
            IN  /\ route' = leg.route
                /\ total_distance' = leg.total_distance
                /\ \E fuel \in FuelCost(leg.total_distance) :
                     result' = Plan(leg.route, leg.total_distance,
                                    Len(stop_objects), depot, fuel)
                /\ first_result' =
                     IF first_result[return_to_depot] = NoResult
                       THEN [first_result EXCEPT ![return_to_depot] = result']
                       ELSE first_result
                /\ pc' = "returned"
  /\ UNCHANGED <<depot, caller_stops, stops, return_to_depot, stop_objects,
                 unvisited, current_lat, current_lon, zone_radius_km, zones,
                 matrix, start_time>>

\* --------------------------------------------------------- group_by_zone
\* (variant: the default 5.0 km is compared instead of the argument)
WithinZoneStrict(dist, radius) == dist < radius

WithinDefaultZone(dist, radius) == dist <= 500000

\* `if dist <= zone_radius_km`
WithinZone(dist, radius) == dist <= radius

\* the inner `for other in stops`; acc = [members, assigned], members are
\* references into stops, assigned is the set of ids
RECURSIVE NearbyScan(_, _, _, _, _)
NearbyScan(s, radius, seed, j, acc) ==
  IF j > Len(s) THEN acc
  ELSE IF s[j].id \in acc.assigned THEN NearbyScan(s, radius, seed, j + 1, acc)
  ELSE LET dist == haversine_distance(s[seed].latitude, s[seed].longitude,
                                      s[j].latitude, s[j].longitude)
       IN  IF WithinZone(dist, radius)
             THEN NearbyScan(s, radius, seed, j + 1,
                             [members |-> Append(acc.members, j),
                              assigned |-> acc.assigned \cup {s[j].id}])
             ELSE NearbyScan(s, radius, seed, j + 1, acc)

\* the outer `for stop in stops`; st = [zones, assigned, zone_count]
RECURSIVE ZoneLoop(_, _, _, _)
ZoneLoop(s, radius, i, st) ==
  IF i > Len(s) THEN st.zones
  ELSE IF s[i].id \in st.assigned THEN ZoneLoop(s, radius, i + 1, st)
  ELSE LET near == NearbyScan(s, radius, i, 1,
                              [members |-> <<i>>,
                               assigned |-> st.assigned \cup {s[i].id}])
       IN  ZoneLoop(s, radius, i + 1,
                    [zones |-> st.zones @@ (st.zone_count :> near.members),
                     assigned |-> near.assigned,
                     zone_count |-> st.zone_count + 1])

group_by_zone(s, radius) ==
  /\ Callable
  /\ caller_stops' = s
  /\ stops' = s
  /\ zone_radius_km' = radius
  /\ zones' = IF s = <<>> THEN <<>>
              ELSE ZoneLoop(s, radius, 1,
                            [zones |-> <<>>, assigned |-> {}, zone_count |-> 1])
  /\ pc' = "grouped"
  /\ return_to_depot' = TRUE
  /\ stop_objects' = <<>>
  /\ unvisited' = <<>>
  /\ current_lat' = depot.latitude
  /\ current_lon' = depot.longitude
  /\ total_distance' = 0
  /\ route' = <<>>
  /\ result' = NoResult
  /\ UNCHANGED <<depot, matrix, start_time, first_result>>

\* ------------------------------------------- calculate_distance_matrix
\* (variant: only the entries above the diagonal are filled)
MatrixEntryUpper(s, i, j) ==
  IF i < j
    THEN haversine_distance(s[i].latitude, s[i].longitude,
                            s[j].latitude, s[j].longitude)
    ELSE 0

\* matrix[i][j]: 0.0 from the initialisation unless i != j
MatrixEntry(s, i, j) ==
  IF i # j
    THEN haversine_distance(s[i].latitude, s[i].longitude,
                            s[j].latitude, s[j].longitude)
    ELSE 0

calculate_distance_matrix(s) ==
  /\ Callable
  /\ caller_stops' = s
  /\ stops' = s
  /\ IF \E i, j \in 1..Len(s) :
          /\ i # j
          /\ haversine_raises(s[i].latitude, s[i].longitude,
                              s[j].latitude, s[j].longitude)
       THEN /\ pc' = "raised"
            /\ matrix' = <<>>
       ELSE /\ pc' = "matrix"
            /\ matrix' = [i \in 1..Len(s) |->
                           [j \in 1..Len(s) |-> MatrixEntry(s, i, j)]]
  /\ return_to_depot' = TRUE
  /\ stop_objects' = <<>>
  /\ unvisited' = <<>>
  /\ current_lat' = depot.latitude
  /\ current_lon' = depot.longitude
  /\ total_distance' = 0
  /\ route' = <<>>
  /\ result' = NoResult
  /\ zone_radius_km' = 0
  /\ zones' = <<>>
  /\ UNCHANGED <<depot, start_time, first_result>>

\* ------------------------------------------- estimate_delivery_windows
\* A clock string "HH:MM" is the tuple of its four digits.
\* start_time values: "09:00" (the default), "23:50", "00:00"
StartTimes == { <<0, 9, 0, 0>>, <<2, 3, 5, 0>>, <<0, 0, 0, 0>> }

\* start_hour * 60 + start_min of map(int, start_time.split(':')), in
\* hundredths of a minute
ParseStart(st) == ((10 * st[1] + st[2]) * 60 + (10 * st[3] + st[4])) * 100

\* (variant: the distance is divided by the speed and not scaled to minutes)
TravelTimeHours(dist) == (dist \div 1000) \div AVG_SPEED_KMH

\* (distance_from_prev / AVG_SPEED_KMH) * 60 in hundredths of a minute
\* (dist is in 1e-5 km and a multiple of 1000)
TravelTime(dist) == ((dist \div 1000) * 60) \div AVG_SPEED_KMH

\* (variant: the hour is not reduced modulo 24)
ClockNoWrap(t) ==
  LET hours == t \div 6000
      mins == (t % 6000) \div 100
  IN  <<hours \div 10, hours % 10, mins \div 10, mins % 10>>

\* hours = int(t // 60) % 24, mins = int(t % 60), f"{hours:02d}:{mins:02d}"
\* for t in hundredths of a minute
Clock(t) ==
  LET hours == (t \div 6000) % 24
      mins == (t % 6000) \div 100
  IN  <<hours \div 10, hours % 10, mins \div 10, mins % 10>>

\* d[key] = val
Put(d, key, val) ==
  [x \in DOMAIN d \cup {key} |-> IF x = key THEN val ELSE d[x]]

\* (variant: every entry is given a departure)
AnyEntry(entry) == TRUE

\* `if stop['type'] == 'delivery'`
IsDelivery(entry) == entry.type = "delivery"

\* the body of `for stop in route` for the entry at k, with the clock at t
RECURSIVE Annotate(_, _, _)
Annotate(rt, k, t) ==
  IF k > Len(rt) THEN rt
  ELSE LET arrival == t + TravelTime(rt[k].distance_from_prev)
           arrived == Put(rt[k], "estimated_arrival", Clock(arrival))
           departure == arrival + STOP_DURATION_MIN * 100
       IN  IF IsDelivery(rt[k])
             THEN Annotate([rt EXCEPT ![k] =
                              Put(arrived, "estimated_departure",
                                  Clock(departure))],
                           k + 1, departure)
             ELSE Annotate([rt EXCEPT ![k] = arrived], k + 1, arrival)

\* estimate_delivery_windows(result['route'], st) on the plan just returned:
\* the entries are annotated in place and the same list is returned
estimate_delivery_windows(st) ==
  /\ pc = "returned"
  /\ start_time' = st
  /\ route' = Annotate(route, 1, ParseStart(st))
  /\ result' = [result EXCEPT !.route = route']
  /\ pc' = "estimated"
  /\ UNCHANGED <<depot, caller_stops, stops, return_to_depot, stop_objects,
                 unvisited, current_lat, current_lon, total_distance,
                 zone_radius_km, zones, matrix, first_result>>

\* ------------------------------------------------------------ callers
\* the call's locals are gone
ResetCall ==
  /\ UNCHANGED db_vars
  /\ pc' = "idle"
  /\ stops' = <<>>
  /\ return_to_depot' = TRUE
  /\ stop_objects' = <<>>
  /\ unvisited' = <<>>
  /\ current_lat' = depot.latitude
  /\ current_lon' = depot.longitude
  /\ total_distance' = 0
  /\ route' = <<>>
  /\ result' = NoResult
  /\ zone_radius_km' = 0
  /\ zones' = <<>>
  /\ matrix' = <<>>
  /\ start_time' = NoStartTime
  /\ UNCHANGED depot

\* the caller has consumed the returned value (or caught the exception) and
\* drops its list
Return ==
  /\ pc \in {"returned", "grouped", "matrix", "raised"}
  /\ ResetCall
  /\ caller_stops' = <<>>
  /\ first_result' = NoFirstResult

\* a caller invokes optimize_route with some stop list and flag
CallOptimizeRoute ==
  /\ UNCHANGED db_vars
  /\ Callable
  /\ \E s \in StopLists \cup FarStopLists \cup PartialStopLists
                 \cup TieStopLists,
        rtd \in BOOLEAN : optimize_route(s, rtd)

\* a caller invokes group_by_zone with some stop list and radius
CallGroupByZone ==
  /\ UNCHANGED db_vars
  /\ Callable
  /\ \E s \in ZoneStopLists, radius \in ZoneRadii : group_by_zone(s, radius)

\* a caller invokes calculate_distance_matrix with some stop list
CallDistanceMatrix ==
  /\ UNCHANGED db_vars
  /\ Callable
  /\ \E s \in MatrixStopLists : calculate_distance_matrix(s)

Next ==
  \/ CallOptimizeRoute
  \/ LoopIteration
  \/ Finish
  \/ CallGroupByZone
  \/ CallDistanceMatrix
  \/ Return

Spec == Init /\ [][Next]_vars

\* ------------------------------------------ RouteOptimizationView.post
\* `'latitude' not in stop or 'longitude' not in stop`
LacksCoordinate(stop) ==
  \/ "latitude" \notin DOMAIN stop
  \/ "longitude" \notin DOMAIN stop

\* the request is answered 400 when stops is empty or a stop lacks a
\* coordinate, and is handed to optimize_route otherwise
PostRequest ==
  /\ UNCHANGED db_vars
  /\ Callable
  /\ \E s \in RequestStopLists, rtd \in BOOLEAN :
       IF s = <<>> \/ \E i \in 1..Len(s) : LacksCoordinate(s[i])
         THEN /\ pc' = "rejected"
              /\ caller_stops' = s
              /\ UNCHANGED <<depot, stops, return_to_depot, stop_objects,
                             unvisited, current_lat, current_lon,
                             total_distance, route, result, zone_radius_km,
                             zones, matrix, start_time, first_result>>
         ELSE optimize_route(s, rtd)

\* `if result.get('route'):` the route is annotated from the request's
\* start_time
PostEstimate ==
  /\ UNCHANGED db_vars
  /\ pc = "returned"
  /\ result.route # <<>>
  /\ \E st \in StartTimes : estimate_delivery_windows(st)

\* Response(result), the 400 response, or the exception leaving the view
PostResponse ==
  /\ pc \in {"estimated", "rejected", "raised"}
  /\ ResetCall
  /\ caller_stops' = <<>>
  /\ first_result' = NoFirstResult

PostNext ==
  \/ PostRequest
  \/ LoopIteration
  \/ Finish
  \/ PostEstimate
  \/ PostResponse

PostSpec == Init /\ [][PostNext]_vars

\* ------------------------------- one caller, one list, repeated calls
HeldInit ==
  /\ depot \in { RouteOptimizer_init(d) : d \in {NoDepot, CustomDepot} }
  /\ pc = "idle"
  /\ caller_stops \in HeldStopLists
  /\ stops = <<>>
  /\ return_to_depot = TRUE
  /\ stop_objects = <<>>
  /\ unvisited = <<>>
  /\ current_lat = depot.latitude
  /\ current_lon = depot.longitude
  /\ total_distance = 0
  /\ route = <<>>
  /\ result = NoResult
  /\ zone_radius_km = 0
  /\ zones = <<>>
  /\ matrix = <<>>
  /\ start_time = NoStartTime
  /\ first_result = NoFirstResult
  /\ NoDatabase

HeldOptimizeRoute ==
  /\ UNCHANGED db_vars
  /\ Callable
  /\ \E rtd \in BOOLEAN : optimize_route(caller_stops, rtd)

HeldGroupByZone ==
  /\ UNCHANGED db_vars
  /\ Callable
  /\ \E radius \in ZoneRadii : group_by_zone(caller_stops, radius)

HeldDistanceMatrix ==
  /\ UNCHANGED db_vars
  /\ Callable
  /\ calculate_distance_matrix(caller_stops)

\* the caller has consumed the returned value and keeps its list
HeldReturn ==
  /\ pc \in {"returned", "grouped", "matrix", "raised"}
  /\ ResetCall
  /\ UNCHANGED <<caller_stops, first_result>>

HeldNext ==
  \/ HeldOptimizeRoute
  \/ LoopIteration
  \/ Finish
  \/ HeldGroupByZone
  \/ HeldDistanceMatrix
  \/ HeldReturn

HeldSpec == HeldInit /\ [][HeldNext]_vars

\* --------------------------------------------- DeliveryRouteViewSet
\* _haversine_distance: the same formula, R * c returned without rounding
\* (MathDomainError where the evaluation raises)
_haversine_distance(lat1, lng1, lat2, lng2) ==
  GreatCircleCm[CoordIndex(lat1, lng1)][CoordIndex(lat2, lng2)]

\* min(remaining, key=lambda d: self._haversine_distance(current, d)):
\* the position of the first element of least distance
NearestPosition(remaining, lat, lng) ==
  LET dist(k) == _haversine_distance(lat, lng, remaining[k].address_lat,
                                     remaining[k].address_lng)
  IN  CHOOSE k \in 1..Len(remaining) :
        /\ \A j \in 1..Len(remaining) : dist(k) <= dist(j)
        /\ \A j \in 1..(k - 1) : dist(j) # dist(k)

\* remaining.remove(nearest): drops the first element that compares equal
\* to nearest (model instances compare by primary key)
RemoveDelivery(remaining, nearest) ==
  LET k == CHOOSE i \in 1..Len(remaining) :
             /\ remaining[i].id = nearest.id
             /\ \A j \in 1..(i - 1) : remaining[j].id # nearest.id
  IN  SubSeq(remaining, 1, k - 1) \o SubSeq(remaining, k + 1, Len(remaining))

\* the while loop of _nearest_neighbor_optimization: the list it returns, or
\* raised when a distance evaluation raises
RECURSIVE NearestNeighborLoop(_, _, _, _)
NearestNeighborLoop(remaining, current_lat_, current_lng_, optimized) ==
  IF remaining = <<>> THEN [raised |-> FALSE, optimized |-> optimized]
  ELSE IF \E k \in 1..Len(remaining) :
            _haversine_distance(current_lat_, current_lng_,
                                remaining[k].address_lat,
                                remaining[k].address_lng) = MathDomainError
    THEN [raised |-> TRUE, optimized |-> optimized]
  ELSE LET nearest == remaining[NearestPosition(remaining, current_lat_,
                                                current_lng_)]
       IN  NearestNeighborLoop(RemoveDelivery(remaining, nearest),
                               nearest.address_lat, nearest.address_lng,
                               Append(optimized, nearest))

\* (variant: the deliveries are kept in the order they were given)
_given_order(store_lat, store_lng, deliveries) ==
  [raised |-> FALSE, optimized |-> deliveries]

_nearest_neighbor_optimization(store_lat, store_lng, deliveries) ==
  NearestNeighborLoop(deliveries, store_lat, store_lng, <<>>)

\* ------------------------------------------------------------- the tables
\* Delivery.STATUS_CHOICES
STATUS_CHOICES == {"pending", "assigned", "in_transit", "delivered", "cancelled"}

\* the fields of the Delivery model
DeliveryFields ==
  {"id", "customer", "product_ownership", "delivery_date", "status",
   "address", "address_lat", "address_lng", "notes", "created_at",
   "updated_at"}

Date(y, m, d) == [year |-> y, month |-> m, day |-> d]

NoDate == Date(0, 0, 0)

\* the two delivery dates of the model: 2026-01-07 and 2026-01-08
RouteDates == { Date(2026, 1, 7), Date(2026, 1, 8) }

DeliveryIds == 1..MaxDeliveries

\* the Delivery table with every row located: the deliveries of 2026-01-07
\* are pending, at A and at C by turns; every third delivery is one of
\* 2026-01-08 at B that has been delivered
LocatedDeliveries ==
  [d \in DeliveryIds |->
     IF d % 3 = 0
       THEN [delivery_date |-> Date(2026, 1, 8), status |-> "delivered",
             address_lat |-> 411000, address_lng |-> 290000]
       ELSE [delivery_date |-> Date(2026, 1, 7), status |-> "pending",
             address_lat |-> IF d % 3 = 1 THEN 410100 ELSE 410050,
             address_lng |-> 290000]]

\* the tables a behaviour starts from: every row located, or one row whose
\* coordinates are null
DeliveryTables ==
  {LocatedDeliveries} \cup
  { [LocatedDeliveries EXCEPT ![d].address_lat = None,
                              ![d].address_lng = None] : d \in DeliveryIds }

\* DeliveryRoute(date=...): the field defaults of a new route
NewRoute ==
  [store_lat |-> 351856, store_lng |-> 333823, total_distance_km |-> None,
   total_duration_min |-> None, is_optimized |-> FALSE]

\* the date query parameter or body field as written, <<year, month, day>>;
\* <<>> when it is missing
DateStrings == { <<>>, <<2026, 1, 7>>, <<2026, 1, 8>>, <<2026, 13, 45>> }

DaysInMonth(y, m) ==
  IF m = 2
    THEN IF (y % 4 = 0 /\ y % 100 # 0) \/ y % 400 = 0 THEN 29 ELSE 28
    ELSE IF m \in {4, 6, 9, 11} THEN 30 ELSE 31

\* datetime.strptime(date_str, '%Y-%m-%d').date(): the date, or ValueError
strptime(date_str) ==
  IF /\ Len(date_str) = 3
     /\ date_str[1] \in 1..9999
     /\ date_str[2] \in 1..12
     /\ date_str[3] \in 1..DaysInMonth(date_str[1], date_str[2])
    THEN [raised |-> FALSE,
          date |-> Date(date_str[1], date_str[2], date_str[3])]
    ELSE [raised |-> TRUE, date |-> NoDate]

\* a view that is not running
IdleRequest ==
  [view |-> "none", pc |-> "idle", date_str |-> <<>>, delivery_ids |-> {},
   route_date |-> NoDate, deliveries |-> <<>>, route |-> NewRoute,
   optimized_order |-> <<>>, i |-> 0, total_distance |-> 0,
   total_duration |-> 0, prev_lat |-> 0, prev_lng |-> 0,
   response |-> 0, result |-> NoResult]

\* Meta.ordering = ['delivery_date', 'created_at']; rows are created in the
\* order of their ids
OrderedBefore(a, b) ==
  LET x == Delivery_objects[a].delivery_date
      y == Delivery_objects[b].delivery_date
  IN  \/ x.year < y.year
      \/ x.year = y.year /\ x.month < y.month
      \/ x.year = y.year /\ x.month = y.month /\ x.day < y.day
      \/ x = y /\ a < b

\* list(queryset): the selected rows as objects, in the model's ordering
RECURSIVE Fetch(_)
Fetch(ids) ==
  IF ids = {} THEN <<>>
  ELSE LET first == CHOOSE a \in ids :
                      \A b \in ids \ {a} : OrderedBefore(a, b)
           row == Delivery_objects[first]
       IN  << [id |-> first, delivery_date |-> row.delivery_date,
               status |-> row.status, address_lat |-> row.address_lat,
               address_lng |-> row.address_lng] >>
           \o Fetch(ids \ {first})

\* Delivery.objects.filter(id__in=delivery_ids)
FilterByIds(delivery_ids) ==
  { d \in DOMAIN Delivery_objects : d \in delivery_ids }

\* Delivery.objects.filter(delivery_date=route_date,
\*                         status__in=['pending', 'assigned'])
FilterByDate(route_date) ==
  { d \in DOMAIN Delivery_objects :
      /\ Delivery_objects[d].delivery_date = route_date
      /\ Delivery_objects[d].status \in {"pending", "assigned"} }

\* `not d.address_lat or not d.address_lng`: null and 0 are both falsy
MissingCoords(d) == d.address_lat = None \/ d.address_lng = None

\* the view returns Response(..., status=code)
Responded(p, view, date_str, delivery_ids, code, res) ==
  request' = [request EXCEPT ![p] =
                [IdleRequest EXCEPT !.view = view, !.pc = "responded",
                                    !.date_str = date_str,
                                    !.delivery_ids = delivery_ids,
                                    !.response = code, !.result = res]]

\* an exception leaves the view: the framework answers 500
Raised(p) ==
  request' = [request EXCEPT ![p].pc = "raised", ![p].response = 500]

tables == <<Delivery_objects, DeliveryRoute_objects, DeliveryRouteStop_objects>>

history == <<last_selected, assigned_by_optimize>>

\* --------------------------------------- DeliveryRouteViewSet.optimize
\* (variant: the route is fetched or created before the request is checked)
RejectAfterGetOrCreate(p, date_str, delivery_ids) ==
  LET parsed == strptime(date_str)
      route_date == parsed.date
  IN  /\ Responded(p, "optimize", date_str, delivery_ids, 400, NoResult)
      /\ DeliveryRoute_objects' =
           [d \in DOMAIN DeliveryRoute_objects \cup {route_date} |->
              IF d \in DOMAIN DeliveryRoute_objects
                THEN DeliveryRoute_objects[d] ELSE NewRoute]
      /\ UNCHANGED <<Delivery_objects, DeliveryRouteStop_objects, history>>

\* the request is answered 400 without a write
Reject(p, date_str, delivery_ids) ==
  /\ Responded(p, "optimize", date_str, delivery_ids, 400, NoResult)
  /\ UNCHANGED <<tables, history>>

\* the checks of the request and the selection of the deliveries
optimize(p, date_str, delivery_ids) ==
  LET parsed == strptime(date_str)
      route_date == parsed.date
      deliveries == IF delivery_ids # {}
                      THEN Fetch(FilterByIds(delivery_ids))
                      ELSE Fetch(FilterByDate(route_date))
  IN  IF date_str = <<>> THEN Reject(p, date_str, delivery_ids)
      ELSE IF parsed.raised THEN Reject(p, date_str, delivery_ids)
      ELSE IF deliveries = <<>> THEN Reject(p, date_str, delivery_ids)
      ELSE IF \E k \in 1..Len(deliveries) : MissingCoords(deliveries[k])
        THEN Reject(p, date_str, delivery_ids)
      ELSE /\ request' = [request EXCEPT ![p] =
                            [IdleRequest EXCEPT !.view = "optimize",
                                                !.pc = "selected",
                                                !.date_str = date_str,
                                                !.delivery_ids = delivery_ids,
                                                !.route_date = route_date,
                                                !.deliveries = deliveries]]
           /\ UNCHANGED <<tables, history>>

\* a request arrives: any date string, any list of delivery ids
OptimizeRequest ==
  /\ UNCHANGED optimizer_vars
  /\ \E p \in DOMAIN request :
       /\ request[p].pc = "idle"
       /\ \E date_str \in DateStrings, delivery_ids \in SUBSET DeliveryIds :
            optimize(p, date_str, delivery_ids)

\* DeliveryRoute.objects.get_or_create(date=route_date)
GetOrCreateRoute ==
  /\ UNCHANGED optimizer_vars
  /\ \E p \in DOMAIN request :
       /\ request[p].pc = "selected"
       /\ LET route_date == request[p].route_date
              created == route_date \notin DOMAIN DeliveryRoute_objects
              row == IF created THEN NewRoute
                     ELSE DeliveryRoute_objects[route_date]
          IN  /\ DeliveryRoute_objects' =
                   [d \in DOMAIN DeliveryRoute_objects \cup {route_date} |->
                      IF d = route_date THEN row
                      ELSE DeliveryRoute_objects[d]]
              /\ request' = [request EXCEPT ![p].pc = "route",
                                            ![p].route = row]
       /\ UNCHANGED <<Delivery_objects, DeliveryRouteStop_objects, history>>

\* route.stops.all().delete()
DeleteStops(route_date) ==
  { s \in DeliveryRouteStop_objects : s.route # route_date }

\* the stops of the route are deleted and the visiting order is computed
DeleteAndOrder ==
  /\ UNCHANGED optimizer_vars
  /\ \E p \in DOMAIN request :
       /\ request[p].pc = "route"
       /\ DeliveryRouteStop_objects' = DeleteStops(request[p].route_date)
       /\ LET r == request[p]
              order == _nearest_neighbor_optimization(
                         r.route.store_lat, r.route.store_lng, r.deliveries)
          IN  IF order.raised THEN Raised(p)
              ELSE request' = [request EXCEPT
                                 ![p].pc = "creating",
                                 ![p].optimized_order = order.optimized,
                                 ![p].i = 0,
                                 ![p].total_distance = 0,
                                 ![p].total_duration = 0,
                                 ![p].prev_lat = r.route.store_lat,
                                 ![p].prev_lng = r.route.store_lng]
       /\ UNCHANGED <<Delivery_objects, DeliveryRoute_objects, history>>

\* int(distance / 40 * 60), distance in cm
Duration(distance) == (distance * 3) \div 200000

\* unique_together = [['route', 'stop_order'], ['route', 'delivery']]
IntegrityError(stop) ==
  \E s \in DeliveryRouteStop_objects :
    /\ s.route = stop.route
    /\ s.stop_order = stop.stop_order \/ s.delivery = stop.delivery

\* one pass of the for loop: DeliveryRouteStop.objects.create(...), the
\* running totals, delivery.status = 'assigned' and delivery.save()
CreateStop ==
  /\ UNCHANGED optimizer_vars
  /\ \E p \in DOMAIN request :
       LET r == request[p]
           delivery == r.optimized_order[r.i + 1]
           distance == _haversine_distance(r.prev_lat, r.prev_lng,
                                           delivery.address_lat,
                                           delivery.address_lng)
           stop == [route |-> r.route_date, delivery |-> delivery.id,
                    stop_order |-> r.i + 1,
                    distance_from_previous_km |-> Round2(distance),
                    duration_from_previous_min |-> Duration(distance)]
       IN  /\ r.pc = "creating"
           /\ r.i < Len(r.optimized_order)
           /\ IF IntegrityError(stop)
                THEN /\ Raised(p)
                     /\ UNCHANGED <<tables, history>>
                ELSE /\ DeliveryRouteStop_objects' =
                          DeliveryRouteStop_objects \cup {stop}
                     /\ Delivery_objects' =
                          [Delivery_objects EXCEPT ![delivery.id] =
                             [delivery_date |-> delivery.delivery_date,
                              status |-> "assigned",
                              address_lat |-> delivery.address_lat,
                              address_lng |-> delivery.address_lng]]
                     /\ assigned_by_optimize' =
                          assigned_by_optimize \cup {delivery.id}
                     /\ request' = [request EXCEPT
                          ![p].i = r.i + 1,
                          ![p].total_distance = r.total_distance + distance,
                          ![p].total_duration =
                             r.total_duration + Duration(distance),
                          ![p].prev_lat = delivery.address_lat,
                          ![p].prev_lng = delivery.address_lng]
                     /\ UNCHANGED <<DeliveryRoute_objects, last_selected>>

\* the ids of a list of deliveries, in its order
Ids(deliveries) == [k \in 1..Len(deliveries) |-> deliveries[k].id]

\* the totals are put on the route object, route.save() writes its row and
\* the view answers 200 (optimized_at, a timestamp nothing reads, is left out)
SaveRoute ==
  /\ UNCHANGED optimizer_vars
  /\ \E p \in DOMAIN request :
       LET r == request[p]
           saved == [r.route EXCEPT
                       !.total_distance_km = Round2(r.total_distance),
                       !.total_duration_min = r.total_duration,
                       !.is_optimized = TRUE]
       IN  /\ r.pc = "creating"
           /\ r.i = Len(r.optimized_order)
           /\ DeliveryRoute_objects' =
                [DeliveryRoute_objects EXCEPT ![r.route_date] = saved]
           /\ request' = [request EXCEPT ![p].pc = "responded",
                                         ![p].route = saved,
                                         ![p].response = 200]
           /\ last_selected' =
                [d \in DOMAIN last_selected \cup {r.route_date} |->
                   IF d = r.route_date THEN Ids(r.deliveries)
                   ELSE last_selected[d]]
           /\ UNCHANGED <<Delivery_objects, DeliveryRouteStop_objects,
                          assigned_by_optimize>>

\* the response has been sent
Respond ==
  /\ UNCHANGED optimizer_vars
  /\ \E p \in DOMAIN request :
       /\ request[p].pc \in {"responded", "raised"}
       /\ request' = [request EXCEPT ![p] = IdleRequest]
       /\ UNCHANGED <<tables, history>>

\* ----------- optimize_deliveries_for_date and RouteOptimizationView.get
\* the keywords of Delivery.objects.filter(scheduled_date=..., status__in=...)
QueryFields == {"scheduled_date", "status"}

\* the attributes read without a default while the stop dicts are built
StopAttributes == {"id", "customer", "delivery_address", "is_priority"}

\* the dict appended to stops for delivery d; getattr falls back to the
\* coordinates of Istanbul
DeliveryStop(d) ==
  [id |-> d.id, latitude |-> Get(d, "latitude", 410082),
   longitude |-> Get(d, "longitude", 289784),
   priority |-> IF d.is_priority THEN 1 ELSE 3]

\* the exception leaves RouteOptimizationView.get, which catches ValueError
\* only
GetRaised(p, date_str) ==
  request' = [request EXCEPT ![p] =
                [IdleRequest EXCEPT !.view = "route_optimization",
                                    !.pc = "raised", !.date_str = date_str,
                                    !.response = 500]]

\* filter() raises FieldError for a keyword that is no field of the model;
\* reading an attribute the model lacks raises AttributeError
optimize_deliveries_for_date(p, date_str, delivery_date) ==
  IF ~(QueryFields \subseteq DeliveryFields)
    THEN /\ GetRaised(p, date_str)
         /\ UNCHANGED optimizer_vars
  ELSE LET deliveries ==
             Fetch({ d \in DOMAIN Delivery_objects :
                       /\ Delivery_objects[d].scheduled_date = delivery_date
                       /\ Delivery_objects[d].status \in
                            {"pending", "confirmed"} })
       IN  IF deliveries = <<>>
             THEN /\ Responded(p, "route_optimization", date_str, {}, 200,
                               [message |-> "No deliveries for this date",
                                route |-> <<>>])
                  /\ UNCHANGED optimizer_vars
           ELSE IF ~(StopAttributes \subseteq DeliveryFields)
             THEN /\ GetRaised(p, date_str)
                  /\ UNCHANGED optimizer_vars
           ELSE /\ request' = [request EXCEPT ![p] =
                                 [IdleRequest EXCEPT
                                    !.view = "route_optimization",
                                    !.pc = "optimizing",
                                    !.date_str = date_str]]
                /\ optimize_route([k \in 1..Len(deliveries) |->
                                     DeliveryStop(deliveries[k])], TRUE)

\* GET ?date=...: the usage message without a date, 400 for a date that
\* strptime refuses, optimize_deliveries_for_date otherwise
RouteOptimizationGet ==
  /\ \E p \in DOMAIN request :
       /\ request[p].pc = "idle"
       /\ \E date_str \in DateStrings :
            IF date_str = <<>>
              THEN /\ Responded(p, "route_optimization", date_str, {}, 200,
                                [message |-> "usage"])
                   /\ UNCHANGED optimizer_vars
            ELSE IF strptime(date_str).raised
              THEN /\ Responded(p, "route_optimization", date_str, {}, 400,
                                NoResult)
                   /\ UNCHANGED optimizer_vars
            ELSE optimize_deliveries_for_date(p, date_str,
                                              strptime(date_str).date)
  /\ UNCHANGED <<tables, history>>

\* --------------------------------- one view at a time on the database
\* the optimizer of optimize_deliveries_for_date has the default depot; the
\* Delivery table holds MaxDeliveries rows, no route has been planned yet
ViewInit ==
  /\ depot = RouteOptimizer_init(NoDepot)
  /\ pc = "idle"
  /\ caller_stops = <<>>
  /\ stops = <<>>
  /\ return_to_depot = TRUE
  /\ stop_objects = <<>>
  /\ unvisited = <<>>
  /\ current_lat = depot.latitude
  /\ current_lon = depot.longitude
  /\ total_distance = 0
  /\ route = <<>>
  /\ result = NoResult
  /\ zone_radius_km = 0
  /\ zones = <<>>
  /\ matrix = <<>>
  /\ start_time = NoStartTime
  /\ first_result = NoFirstResult
  /\ Delivery_objects \in DeliveryTables
  /\ DeliveryRoute_objects = <<>>
  /\ DeliveryRouteStop_objects = {}
  /\ request = [p \in {1} |-> IdleRequest]
  /\ last_selected = <<>>
  /\ assigned_by_optimize = {}

ViewNext ==
  \/ OptimizeRequest
  \/ GetOrCreateRoute
  \/ DeleteAndOrder
  \/ CreateStop
  \/ SaveRoute
  \/ RouteOptimizationGet
  \/ Respond

ViewSpec == ViewInit /\ [][ViewNext]_vars

\* ------------------------------ two optimize requests, step by step
\* pending deliveries with coordinates: those of 2026-01-07 at A and at C by
\* turns, every third one of 2026-01-08 at I
PendingDeliveries ==
  [d \in DeliveryIds |->
     IF d % 3 = 0
       THEN [delivery_date |-> Date(2026, 1, 8), status |-> "pending",
             address_lat |-> 409950, address_lng |-> 290000]
       ELSE [delivery_date |-> Date(2026, 1, 7), status |-> "pending",
             address_lat |-> IF d % 3 = 1 THEN 410100 ELSE 410050,
             address_lng |-> 290000]]

InterleavedInit ==
  /\ depot = RouteOptimizer_init(NoDepot)
  /\ pc = "idle"
  /\ caller_stops = <<>>
  /\ stops = <<>>
  /\ return_to_depot = TRUE
  /\ stop_objects = <<>>
  /\ unvisited = <<>>
  /\ current_lat = depot.latitude
  /\ current_lon = depot.longitude
  /\ total_distance = 0
  /\ route = <<>>
  /\ result = NoResult
  /\ zone_radius_km = 0
  /\ zones = <<>>
  /\ matrix = <<>>
  /\ start_time = NoStartTime
  /\ first_result = NoFirstResult
  /\ Delivery_objects = PendingDeliveries
  /\ DeliveryRoute_objects = <<>>
  /\ DeliveryRouteStop_objects = {}
  /\ request = [p \in {1, 2} |-> IdleRequest]
  /\ last_selected = <<>>
  /\ assigned_by_optimize = {}

\* a request for one of the two dates, without delivery_ids, arrives while
\* the other worker may be anywhere in its own request
InterleavedRequest ==
  /\ UNCHANGED optimizer_vars
  /\ \E p \in DOMAIN request :
       /\ request[p].pc = "idle"
       /\ \E date_str \in { <<2026, 1, 7>>, <<2026, 1, 8>> } :
            optimize(p, date_str, {})

InterleavedNext ==
  \/ InterleavedRequest
  \/ GetOrCreateRoute
  \/ DeleteAndOrder
  \/ CreateStop
  \/ SaveRoute
  \/ Respond

InterleavedSpec == InterleavedInit /\ [][InterleavedNext]_vars

\* ===================================================================
\* Properties
\* ===================================================================
Deliveries(rt) == SelectSeq(rt, LAMBDA e : e.type = "delivery")

AsStop(e) ==
  [id |-> e.id, latitude |-> e.latitude, longitude |-> e.longitude,
   priority |-> e.priority]

Occurrences(seq, x) == Cardinality({ k \in 1..Len(seq) : seq[k] = x })

PlanReturned == pc = "returned" /\ stops # <<>>

\* a step of the selection loop
IsLoopIteration == pc = "loop" /\ unvisited # <<>> /\ unvisited' # unvisited

DistFromCurrent(i) ==
  haversine_distance(current_lat, current_lon,
                     stops[i].latitude, stops[i].longitude)

DistFromDepot(i) ==
  haversine_distance(depot.latitude, depot.longitude,
                     stops[i].latitude, stops[i].longitude)

RECURSIVE SumDistanceFromPrev(_)
SumDistanceFromPrev(rt) ==
  IF rt = <<>> THEN 0
  ELSE rt[1].distance_from_prev + SumDistanceFromPrev(Tail(rt))

\* C1: for a non-empty stop list the delivery entries of the returned route
\* are exactly the input stops, every one once: as many delivery entries as
\* input stops, and every stop record occurs among the delivery entries as
\* often as it occurs in the input.
C1_RouteComplete ==
  PlanReturned =>
    LET d == Deliveries(result.route)
        visited == [k \in 1..Len(d) |-> AsStop(d[k])]
    IN  /\ Len(d) = Len(stops)
        /\ \A i \in 1..Len(stops) :
             Occurrences(visited, stops[i]) = Occurrences(stops, stops[i])

\* C1 witness: a plan was returned for a list holding the same stop twice
C1_Witness ==
  /\ PlanReturned
  /\ Len(stops) = 3
  /\ stops[1] = stops[3]
  /\ stops[1] # stops[2]

\* C2: the entry appended by a loop iteration is at its recorded distance
\* from the current position, and no still-unvisited stop is nearer; from
\* depot (41.0,29.0) with A, B, C the deliveries are visited as C, A, B.
C2_NearestSelected ==
  /\ [][IsLoopIteration =>
          LET e == route'[Len(route')]
          IN  /\ Len(route') = Len(route) + 1
              /\ e.distance_from_prev =
                   haversine_distance(current_lat, current_lon,
                                      e.latitude, e.longitude)
              /\ \A k \in 1..Len(unvisited) :
                   e.distance_from_prev <= DistFromCurrent(unvisited[k])]_vars
  /\ [](( /\ PlanReturned
          /\ depot = CustomDepot
          /\ [k \in 1..Len(stops) |-> <<stops[k].latitude, stops[k].longitude>>]
               = <<Coordinates[3], Coordinates[4], Coordinates[5]>> )
        => LET d == Deliveries(result.route)
           IN  [k \in 1..Len(d) |-> <<d[k].latitude, d[k].longitude>>]
                 = <<Coordinates[5], Coordinates[3], Coordinates[4]>>)

\* C2 witness: the plan for A, B, C from depot (41.0,29.0) has been returned
C2_Witness ==
  /\ PlanReturned
  /\ depot = CustomDepot
  /\ [k \in 1..Len(stops) |-> <<stops[k].latitude, stops[k].longitude>>]
       = <<Coordinates[3], Coordinates[4], Coordinates[5]>>
  /\ Len(Deliveries(result.route)) = 3

\* C3: cumulative_distance never decreases along the route; in a returned
\* plan the last entry's cumulative_distance is the sum of all
\* distance_from_prev values, and so is total_distance_km.
C3_CumulativeDistance ==
  /\ \A k \in 1..(Len(route) - 1) :
       route[k].cumulative_distance <= route[k + 1].cumulative_distance
  /\ PlanReturned =>
       /\ result.route[Len(result.route)].cumulative_distance
            = SumDistanceFromPrev(result.route)
       /\ result.total_distance_km = SumDistanceFromPrev(result.route)

\* C3 witness: a returned plan with three legs of non-zero length
C3_Witness ==
  /\ PlanReturned
  /\ Len(result.route) >= 4
  /\ \A k \in 2..Len(result.route) : result.route[k].distance_from_prev > 0

\* C4: an empty stop list returns route = [], total_distance_km = 0 and
\* stops_count = 0.
C4_EmptyResult ==
  (pc = "returned" /\ stops = <<>>) =>
    /\ result.route = <<>>
    /\ result.total_distance_km = 0
    /\ "stops_count" \in DOMAIN result
    /\ result.stops_count = 0

\* C5: for n >= 1 stops the route starts with the depot as 'start' at
\* distance 0; with return_to_depot it has n+2 entries and ends with the
\* depot as 'return', without it has n+1 entries and no 'return'; every
\* entry in between is a 'delivery'.
C5_RouteShape ==
  PlanReturned =>
    LET rt == result.route
        n == Len(stops)
    IN  /\ Len(rt) = IF return_to_depot THEN n + 2 ELSE n + 1
        /\ rt[1].type = "start"
        /\ rt[1].distance_from_prev = 0
        /\ rt[1].cumulative_distance = 0
        /\ <<rt[1].latitude, rt[1].longitude>>
             = <<depot.latitude, depot.longitude>>
        /\ \A k \in 2..(n + 1) : rt[k].type = "delivery"
        /\ return_to_depot =>
             /\ rt[n + 2].type = "return"
             /\ <<rt[n + 2].latitude, rt[n + 2].longitude>>
                  = <<depot.latitude, depot.longitude>>
        /\ ~return_to_depot => \A k \in 1..Len(rt) : rt[k].type # "return"

\* C5 witness: a plan without the return leg
C5_Witness == PlanReturned /\ ~return_to_depot /\ Len(stops) = 2

\* the stop a loop iteration takes out of unvisited
Selected == CHOOSE i \in Range(unvisited) \ Range(unvisited') : TRUE

\* C6: of several unvisited stops at the same minimal distance the loop
\* takes the one with the smallest priority number, and among equal
\* priorities the one earliest in the caller's list.
C6_TieBreak ==
  [][IsLoopIteration =>
       /\ Range(unvisited) \ Range(unvisited') = {Selected}
       /\ AsStop(route'[Len(route')]) = stops[Selected]
       /\ \A j \in Range(unvisited) \ {Selected} :
            DistFromCurrent(j) = DistFromCurrent(Selected) =>
              \/ stops[Selected].priority < stops[j].priority
              \/ /\ stops[Selected].priority = stops[j].priority
                 /\ Selected < j]_vars

\* C6 witness: the first selection has been made from the custom depot where
\* the nearest stops, at C and at I, tie, the later one in the list having
\* the smaller priority number, and a third stop shares that priority
C6_Witness ==
  /\ pc = "loop"
  /\ Len(route) = 2
  /\ depot = CustomDepot
  /\ Len(stops) = 3
  /\ <<stops[1].latitude, stops[1].longitude>> = Coordinates[5]
  /\ <<stops[2].latitude, stops[2].longitude>> = Coordinates[6]
  /\ <<stops[3].latitude, stops[3].longitude>> = Coordinates[6]
  /\ stops[1].priority = 2
  /\ stops[2].priority = 1
  /\ stops[3].priority = 1
  /\ unvisited = <<3, 1>>

\* C7: one stop with return_to_depot gives the 3-entry route start,
\* delivery, return whose last cumulative_distance is twice the Haversine
\* distance between depot and stop.
C7_SingleStopRoundTrip ==
  (PlanReturned /\ Len(stops) = 1 /\ return_to_depot) =>
    LET rt == result.route
    IN  /\ Len(rt) = 3
        /\ rt[1].type = "start"
        /\ rt[2].type = "delivery"
        /\ rt[3].type = "return"
        /\ rt[3].cumulative_distance = 2 * DistFromDepot(1)

\* C7 witness: the one-stop round trip has been returned
C7_Witness ==
  /\ PlanReturned
  /\ Len(stops) = 1
  /\ return_to_depot
  /\ result.total_distance_km > 0

\* C8: in a returned plan the reported total_time_min is the reported
\* driving_time_min plus the reported stop_time_min, the latter being
\* stops_count x 15.
C8_TotalTimeIsSum ==
  PlanReturned =>
    /\ result.stop_time_min = result.stops_count * STOP_DURATION_MIN
    /\ result.total_time_min = result.driving_time_min + result.stop_time_min

ZonePositions ==
  UNION { { <<z, k>> : k \in DOMAIN zones[z] } : z \in DOMAIN zones }

\* C9: group_by_zone partitions its input: every input stop (an element of
\* the caller's list) is a member of exactly one zone, once.
C9_ZonesPartition ==
  pc = "grouped" =>
    \A i \in 1..Len(stops) :
      Cardinality({ zk \in ZonePositions : zones[zk[1]][zk[2]] = i }) = 1

\* C10: every member of a zone is within zone_radius_km of the zone's seed,
\* its first member.
C10_WithinRadiusOfSeed ==
  pc = "grouped" =>
    \A z \in DOMAIN zones : \A k \in DOMAIN zones[z] :
      LET seed == stops[zones[z][1]]
          other == stops[zones[z][k]]
      IN  haversine_distance(seed.latitude, seed.longitude,
                             other.latitude, other.longitude)
            <= zone_radius_km

\* C10 witness: with radius 0.56 km the seed's zone holds a stop exactly
\* 0.56 km away, and a stop 10 km away has a zone of its own
C10_Witness ==
  /\ pc = "grouped"
  /\ zone_radius_km = 56000
  /\ Len(stops) = 3
  /\ <<stops[1].latitude, stops[1].longitude>> = Coordinates[3]
  /\ <<stops[2].latitude, stops[2].longitude>> = Coordinates[4]
  /\ <<stops[3].latitude, stops[3].longitude>> = Coordinates[5]
  /\ DOMAIN zones = {1, 2}
  /\ zones[1] = <<1, 3>>
  /\ zones[2] = <<2>>

\* Distance between the stops at two positions of the caller's list.
DistBetween(i, j) ==
  haversine_distance(stops[i].latitude, stops[i].longitude,
                     stops[j].latitude, stops[j].longitude)

\* Positions of the caller's list that are members of zone z.
ZoneMembers(z) == Range(zones[z])

Estimated == pc = "estimated"

\* sum of distance_from_prev over the entries 1..k
RECURSIVE LegsUpTo(_, _)
LegsUpTo(rt, k) ==
  IF k = 0 THEN 0 ELSE LegsUpTo(rt, k - 1) + rt[k].distance_from_prev

\* number of delivery entries before the entry at k
DeliveriesBefore(rt, k) ==
  Cardinality({ j \in 1..(k - 1) : rt[j].type = "delivery" })

\* minutes since 00:00 that a clock string shows
MinuteOfDay(clock) ==
  (10 * clock[1] + clock[2]) * 60 + 10 * clock[3] + clock[4]

\* whole minutes of driving over the legs 1..k at 30 km/h, counted from the
\* start time, in hundredths of a minute
DrivingClock(rt, k) ==
  MinuteOfDay(start_time) * 100 + (LegsUpTo(rt, k) \div 1000) * 2

\* C12 as stated: every entry's estimated_arrival is the start time plus the
\* cumulative driving time of the legs up to and including the entry, modulo
\* 24 h.
C12_ArrivalIsDrivingTime ==
  Estimated =>
    \A k \in 1..Len(route) :
      MinuteOfDay(route[k].estimated_arrival)
        = (DrivingClock(route, k) \div 100) % 1440

\* C12 amended: every entry's estimated_arrival is the start time plus the
\* cumulative driving time of the legs up to and including the entry plus
\* 15 minutes for every delivery entry before it, cut to whole minutes,
\* modulo 24 h; the start entry's arrival is the start time.
C12_ArrivalIsDrivingAndServiceTime ==
  Estimated =>
    /\ \A k \in 1..Len(route) :
         MinuteOfDay(route[k].estimated_arrival)
           = ((DrivingClock(route, k)
                + DeliveriesBefore(route, k) * STOP_DURATION_MIN * 100)
              \div 100) % 1440
    /\ MinuteOfDay(route[1].estimated_arrival)
         = MinuteOfDay(start_time) % 1440

\* C12 witness: a route started at 09:00 whose third entry is reached after
\* one delivery was served, so its arrival is later than driving alone gives
C12_Witness ==
  /\ Estimated
  /\ start_time = <<0, 9, 0, 0>>
  /\ Len(route) >= 3
  /\ route[2].type = "delivery"
  /\ route[3].distance_from_prev > 0
  /\ MinuteOfDay(route[3].estimated_arrival)
       = (DrivingClock(route, 3) \div 100) + STOP_DURATION_MIN

\* C13: estimated_departure is set on exactly the delivery entries, and it
\* is the entry's estimated_arrival plus 15 minutes, modulo 24 h.
C13_DepartureOnDeliveries ==
  Estimated =>
    \A k \in 1..Len(route) :
      /\ ("estimated_departure" \in DOMAIN route[k])
           <=> (route[k].type = "delivery")
      /\ route[k].type = "delivery" =>
           MinuteOfDay(route[k].estimated_departure)
             = (MinuteOfDay(route[k].estimated_arrival) + 15) % 1440

\* C13 witness: an annotated round trip: the delivery has a departure, the
\* start and return entries have none
C13_Witness ==
  /\ Estimated
  /\ Len(route) = 3
  /\ route[1].type = "start"
  /\ route[2].type = "delivery"
  /\ route[3].type = "return"
  /\ "estimated_departure" \in DOMAIN route[2]
  /\ "estimated_departure" \notin DOMAIN route[1]
  /\ "estimated_departure" \notin DOMAIN route[3]

\* the clock strings written on an entry
ClocksOf(entry) ==
  { entry[f] : f \in DOMAIN entry
                       \cap {"estimated_arrival", "estimated_departure"} }

\* minutes elapsed since 00:00 of the start day when the entry at k is
\* reached (left, for a departure)
ElapsedAtArrival(rt, k) ==
  (DrivingClock(rt, k) + DeliveriesBefore(rt, k) * STOP_DURATION_MIN * 100)
    \div 100

\* C14: every clock time written is a valid HH:MM, 00 <= HH <= 23 and
\* 00 <= MM <= 59, and equals the elapsed minute count since 00:00 modulo
\* 1440.
C14_ValidClock ==
  Estimated =>
    \A k \in 1..Len(route) :
      /\ \A c \in ClocksOf(route[k]) :
           /\ Len(c) = 4
           /\ \A d \in 1..4 : c[d] \in 0..9
           /\ 10 * c[1] + c[2] <= 23
           /\ 10 * c[3] + c[4] <= 59
      /\ MinuteOfDay(route[k].estimated_arrival)
           = ElapsedAtArrival(route, k) % 1440
      /\ route[k].type = "delivery" =>
           MinuteOfDay(route[k].estimated_departure)
             = (ElapsedAtArrival(route, k) + STOP_DURATION_MIN) % 1440

\* C14 witness: a route started at 23:50 that runs past midnight: an entry
\* is reached 1440 or more minutes after 00:00 and shows a wrapped time
C14_Witness ==
  /\ Estimated
  /\ start_time = <<2, 3, 5, 0>>
  /\ \E k \in 1..Len(route) :
       /\ ElapsedAtArrival(route, k) >= 1440
       /\ MinuteOfDay(route[k].estimated_arrival)
            = ElapsedAtArrival(route, k) - 1440

\* ------------------------------------------- calculate_distance_matrix
\* C15: the returned matrix is N x N for the N stops handed in, its diagonal
\* is 0, its entry [i][j] for i /= j is haversine_distance(stop i, stop j),
\* and it is symmetric.
C15_DistanceMatrix ==
  pc = "matrix" =>
    /\ Len(matrix) = Len(stops)
    /\ \A i \in 1..Len(stops) :
         /\ Len(matrix[i]) = Len(stops)
         /\ matrix[i][i] = 0
         /\ \A j \in 1..Len(stops) :
              /\ i # j => matrix[i][j] = DistBetween(i, j)
              /\ matrix[i][j] = matrix[j][i]

\* C15 witness: the matrix of three stops at three different places
C15_Witness ==
  /\ pc = "matrix"
  /\ Len(matrix) = 3
  /\ matrix[1][2] > 0
  /\ matrix[2][3] > matrix[1][2]
  /\ matrix[3][1] > matrix[2][3]

\* ------------------------------------------------------- frame effects
\* C16: a plan optimize_route returned keeps its route entries, fields and
\* values, through every later optimizer operation while the caller holds it.
C16_PlanNotModified ==
  [][(pc \in {"returned", "estimated"} /\ pc' # "idle")
       => result'.route = result.route]_vars

\* the returned dict with the one field the model leaves open (the rounding
\* of a fuel cost exactly between two cents) blanked
WithoutFuelCost(plan) == [plan EXCEPT !.estimated_fuel_cost = 0]

\* C17: optimize_route, calculate_distance_matrix and group_by_zone leave
\* the caller's list and the depot as they were, and optimize_route called
\* again with the same list and flag returns what its first call returned.
C17_CallerStateUnchanged ==
  /\ [][caller_stops' = caller_stops /\ depot' = depot]_vars
  /\ [](pc = "returned" =>
          WithoutFuelCost(result)
            = WithoutFuelCost(first_result[return_to_depot]))

\* C17 witness: a plan is returned for a list of two stops of different
\* priority, listed against the priority order, after the same optimizer
\* already returned plans for both flags on that list
C17_Witness ==
  /\ pc = "returned"
  /\ Len(caller_stops) = 2
  /\ caller_stops[1].priority > caller_stops[2].priority
  /\ first_result[TRUE] # NoResult
  /\ first_result[FALSE] # NoResult

\* ------------------------------------------------------- termination
\* C18: for a non-empty list the selection loop removes one stop per
\* iteration, has run Len(stops) iterations when it ends, and no exception
\* leaves optimize_route.
C18_LoopTerminates ==
  /\ pc = "loop" => Len(route) - 1 + Len(unvisited) = Len(stops)
  /\ PlanReturned => Len(Deliveries(result.route)) = Len(stops)
  /\ ~(pc = "raised" /\ route # <<>>)

\* ------------------------------------------------------- validation
\* C19: no plan is computed for a list holding a stop that lacks a latitude
\* or a longitude.
C19_MissingCoordinateRejected ==
  pc \in {"loop", "returned", "estimated"} =>
    \A i \in 1..Len(caller_stops) : ~LacksCoordinate(caller_stops[i])

\* ------------------------------------------------------------ haversine
\* both orders raise or both return the same value
Symmetric(lat1, lon1, lat2, lon2) ==
  IF haversine_raises(lat1, lon1, lat2, lon2)
    THEN haversine_raises(lat2, lon2, lat1, lon1)
    ELSE /\ ~haversine_raises(lat2, lon2, lat1, lon1)
         /\ haversine_distance(lat1, lon1, lat2, lon2)
              = haversine_distance(lat2, lon2, lat1, lon1)

\* C20: haversine_distance is symmetric in its two points: for every pair of
\* stops handed to calculate_distance_matrix, which measures every ordered
\* pair, and for every pair of stops of a call that raised, both orders raise
\* or both return the same value.
C20_HaversineSymmetric ==
  pc \in {"matrix", "raised"} =>
    \A i, j \in 1..Len(stops) :
      Symmetric(stops[i].latitude, stops[i].longitude,
                stops[j].latitude, stops[j].longitude)

\* C20 witness: two stops at different places have been measured in both
\* orders
C20_Witness ==
  /\ pc = "matrix"
  /\ Len(stops) = 2
  /\ DistBetween(1, 2) > 0
  /\ matrix[1][2] = DistBetween(1, 2)
  /\ matrix[2][1] = DistBetween(2, 1)

\* the two records carry the same coordinates
SamePlace(x, y) == x.latitude = y.latitude /\ x.longitude = y.longitude

\* C21: a distance haversine_distance returned is never negative, and it is
\* exactly 0 when the two points are the same: in every route a leg between
\* two entries at the same place has distance_from_prev 0, and in every
\* distance matrix the entry of two stops at the same place is 0.
C21_SelfDistanceZero ==
  /\ \A k \in 2..Len(route) :
       /\ route[k].distance_from_prev >= 0
       /\ SamePlace(route[k], route[k - 1]) => route[k].distance_from_prev = 0
  /\ pc = "matrix" =>
       \A i, j \in 1..Len(stops) :
         /\ matrix[i][j] >= 0
         /\ SamePlace(stops[i], stops[j]) => matrix[i][j] = 0

\* C21 witness: a returned route visits two stops at the same place one
\* after the other
C21_Witness ==
  /\ PlanReturned
  /\ \E k \in 3..Len(route) :
       /\ route[k].type = "delivery"
       /\ route[k - 1].type = "delivery"
       /\ SamePlace(route[k], route[k - 1])
       /\ route[k].distance_from_prev = 0

\* the zones whose seed is within zone_radius_km of the stop at position i
SeedsNear(i) ==
  { z \in DOMAIN zones : DistBetween(zones[z][1], i) <= zone_radius_km }

\* C22: the zones are numbered 1, 2, ... without gaps, their seeds follow the
\* input order, and a stop within zone_radius_km of two or more seeds is a
\* member of the zone of the first of those seeds.
C22_FirstSeedClaims ==
  pc = "grouped" =>
    /\ DOMAIN zones = 1..Cardinality(DOMAIN zones)
    /\ \A y, z \in DOMAIN zones : y < z => zones[y][1] < zones[z][1]
    /\ \A i \in 1..Len(stops) :
         Cardinality(SeedsNear(i)) >= 2 =>
           i \in ZoneMembers(CHOOSE z \in SeedsNear(i) :
                               \A y \in SeedsNear(i) : z <= y)

\* C23: in a returned route no delivery comes before a delivery of higher
\* priority (smaller priority number).
C23_PriorityOrder ==
  PlanReturned =>
    \A j, k \in 1..Len(result.route) :
      ( /\ j < k
        /\ result.route[j].type = "delivery"
        /\ result.route[k].type = "delivery" )
      => result.route[j].priority <= result.route[k].priority

\* the caller's stop dicts read as deliveries {id, address_lat, address_lng}
AsDeliveries(s) ==
  [i \in 1..Len(s) |->
     [id |-> s[i].id, address_lat |-> s[i].latitude,
      address_lng |-> s[i].longitude]]

\* the list has distinct ids, both coordinates on every dict and one priority
Comparable(s) ==
  /\ \A i \in 1..Len(s) : ~LacksCoordinate(s[i])
  /\ \A i, j \in 1..Len(s) : i # j => s[i].id # s[j].id
  /\ \A i, j \in 1..Len(s) : Get(s[i], "priority", 3) = Get(s[j], "priority", 3)

\* C30: for a list of stops of one priority, the deliveries of the route that
\* optimize_route returns are in the order in which
\* _nearest_neighbor_optimization visits the same stops from the same start.
C30_SameVisitingOrder ==
  (PlanReturned /\ Comparable(caller_stops)) =>
    LET visited == _nearest_neighbor_optimization(
                     depot.latitude, depot.longitude,
                     AsDeliveries(caller_stops))
        planned == Deliveries(result.route)
    IN  /\ ~visited.raised
        /\ Len(visited.optimized) = Len(planned)
        /\ \A k \in 1..Len(planned) :
             planned[k].id = visited.optimized[k].id

\* the pending deliveries of a date
PendingOn(date) ==
  { d \in DOMAIN Delivery_objects :
      /\ Delivery_objects[d].delivery_date = date
      /\ Delivery_objects[d].status = "pending" }

\* C24: a GET with a well-formed date answers with the result of
\* optimize_deliveries_for_date: {message, route: []} when no pending
\* delivery is scheduled on the date, and otherwise a route in which every
\* pending delivery of the date is exactly one delivery entry carrying its
\* estimated arrival.
C24_DateOptimized ==
  \A p \in DOMAIN request :
    LET r == request[p]
        parsed == strptime(r.date_str)
    IN  ( /\ r.view = "route_optimization"
          /\ r.pc \in {"responded", "raised"}
          /\ r.date_str # <<>>
          /\ ~parsed.raised )
        => /\ r.pc = "responded"
           /\ r.response = 200
           /\ IF PendingOn(parsed.date) = {}
                THEN r.result = [message |-> "No deliveries for this date",
                                 route |-> <<>>]
                ELSE \A d \in PendingOn(parsed.date) :
                       /\ Cardinality({ k \in 1..Len(r.result) :
                                          /\ r.result[k].type = "delivery"
                                          /\ r.result[k].id = d }) = 1
                       /\ \A k \in 1..Len(r.result) :
                            r.result[k].type = "delivery"
                            => "estimated_arrival" \in DOMAIN r.result[k]

\* the stored stops of the route of a date
StopsOf(route_date) ==
  { s \in DeliveryRouteStop_objects : s.route = route_date }

\* no view is running
Quiescent == \A p \in DOMAIN request : request[p].pc = "idle"

\* the rows written for the deliveries order[k..] when the previous point is
\* (lat, lng)
RECURSIVE StopRows(_, _, _, _, _)
StopRows(route_date, order, k, lat, lng) ==
  IF k > Len(order) THEN {}
  ELSE LET distance == _haversine_distance(lat, lng, order[k].address_lat,
                                           order[k].address_lng)
       IN  { [route |-> route_date, delivery |-> order[k].id,
              stop_order |-> k,
              distance_from_previous_km |-> Round2(distance),
              duration_from_previous_min |-> Duration(distance)] }
           \cup StopRows(route_date, order, k + 1, order[k].address_lat,
                         order[k].address_lng)

\* what a request for route_date without delivery_ids stores when no other
\* request runs
StopsWhenAlone(route_date) ==
  StopRows(route_date,
           _nearest_neighbor_optimization(
             NewRoute.store_lat, NewRoute.store_lng,
             Fetch(FilterByDate(route_date))).optimized,
           1, NewRoute.store_lat, NewRoute.store_lng)

\* the sum of duration_from_previous_min over a set of stop rows
RECURSIVE SumDuration(_)
SumDuration(rows) ==
  IF rows = {} THEN 0
  ELSE LET s == CHOOSE x \in rows : TRUE
       IN  s.duration_from_previous_min + SumDuration(rows \ {s})

\* C25: two optimize requests interleaved step by step do not interfere: no
\* request ends in an exception, and once both have been answered the stops
\* of every route are those that one request for its date stores when it
\* runs alone, and its duration is the sum over those stops.
C25_NoInterference ==
  /\ \A p \in DOMAIN request : request[p].pc # "raised"
  /\ Quiescent =>
       \A route_date \in DOMAIN DeliveryRoute_objects :
         /\ StopsOf(route_date) = StopsWhenAlone(route_date)
         /\ DeliveryRoute_objects[route_date].is_optimized
         /\ DeliveryRoute_objects[route_date].total_duration_min =
              SumDuration(StopsWhenAlone(route_date))

\* the point a stop row is reached from: the store for the first stop, the
\* address of the delivery of the stop before it otherwise
PreviousPoint(s) ==
  IF s.stop_order = 1
    THEN <<DeliveryRoute_objects[s.route].store_lat,
           DeliveryRoute_objects[s.route].store_lng>>
    ELSE LET before == CHOOSE t \in StopsOf(s.route) :
                         t.stop_order = s.stop_order - 1
         IN  <<Delivery_objects[before.delivery].address_lat,
               Delivery_objects[before.delivery].address_lng>>

\* the unrounded distance from the point before stop s to the delivery of t
DistanceTo(s, t) ==
  _haversine_distance(PreviousPoint(s)[1], PreviousPoint(s)[2],
                      Delivery_objects[t.delivery].address_lat,
                      Delivery_objects[t.delivery].address_lng)

\* C26: between calls, every date that an optimize call has answered 200 for
\* has its route, marked optimized; the stops of the route are the
\* deliveries the last such call selected, each once, numbered 1..n; every
\* stop is at least as near to the point before it as any later stop; and
\* all those deliveries are 'assigned'.
C26_RouteOfLastCall ==
  Quiescent =>
    \A route_date \in DOMAIN last_selected :
      LET ids == last_selected[route_date]
          stored == StopsOf(route_date)
      IN  /\ route_date \in DOMAIN DeliveryRoute_objects
          /\ DeliveryRoute_objects[route_date].is_optimized
          /\ { s.delivery : s \in stored } = Range(ids)
          /\ Cardinality(stored) = Len(ids)
          /\ { s.stop_order : s \in stored } = 1..Len(ids)
          /\ \A s, t \in stored :
               s.stop_order < t.stop_order
               => DistanceTo(s, s) <= DistanceTo(s, t)
          /\ \A d \in Range(ids) : Delivery_objects[d].status = "assigned"

\* C26 witness: between calls a route holds two stops, and the delivery
\* visited first is not the first of the selected list
C26_Witness ==
  /\ Quiescent
  /\ \E route_date \in DOMAIN last_selected :
       /\ Len(last_selected[route_date]) >= 2
       /\ \E s \in StopsOf(route_date) :
            /\ s.stop_order = 1
            /\ s.delivery # last_selected[route_date][1]

\* C27: a step in which optimize answers without having selected deliveries
\* is a rejection: the answer is 400 and no table changes; a missing or
\* malformed date is always answered this way.
C27_RejectionChangesNothing ==
  [][\A p \in DOMAIN request :
       (request[p].pc = "idle" /\ request'[p].view = "optimize")
       => /\ request'[p].pc = "responded"
             => /\ request'[p].response = 400
                /\ UNCHANGED tables
          /\ (request'[p].date_str = <<>>
                \/ strptime(request'[p].date_str).raised)
             => request'[p].pc = "responded"]_vars

\* C27 witness: a request has been rejected while a route with stops is
\* stored
C27_Witness ==
  /\ DeliveryRouteStop_objects # {}
  /\ \E p \in DOMAIN request :
       /\ request[p].view = "optimize"
       /\ request[p].pc = "responded"
       /\ request[p].response = 400
       /\ \E d \in request[p].delivery_ids :
            MissingCoords(Delivery_objects[d])

\* C28: between calls, every delivery whose status optimize has set to
\* 'assigned' is the delivery of a stop of some stored route.
C28_AssignedHaveStop ==
  Quiescent =>
    \A d \in assigned_by_optimize :
      Delivery_objects[d].status = "assigned"
      => \E s \in DeliveryRouteStop_objects : s.delivery = d

\* C29: when optimize has answered 200 for a date, every stop of the route
\* of the date refers to a delivery of that date whose status was 'pending'
\* or 'assigned' when the call selected it.
C29_StopsOfDateAndOpen ==
  \A p \in DOMAIN request :
    LET r == request[p]
    IN  (r.view = "optimize" /\ r.pc = "responded" /\ r.response = 200)
        => \A s \in StopsOf(r.route_date) :
             /\ Delivery_objects[s.delivery].delivery_date = r.route_date
             /\ \E k \in 1..Len(r.deliveries) :
                  /\ r.deliveries[k].id = s.delivery
                  /\ r.deliveries[k].status \in {"pending", "assigned"}

====
